---- MODULE Spec2Model ----
(***************************************************************************)
(* Model of the pdf2excel conversion service: converter.py (text check,    *)
(* OCR, extraction chain, cell cleaning, header promotion, workbook        *)
(* writing) and the /convert endpoint of app.py.                           *)
(*                                                                         *)
(* Text is modelled as a sequence of one-character strings, a cell as a    *)
(* record [kind, chars] (kind "str", "none" for Python None, "na" for      *)
(* pandas.NA, "num" for a non-string scalar whose str() is chars), a       *)
(* table as a record [cols, rows] standing for a DataFrame.                *)
(***************************************************************************)
EXTENDS Integers, Sequences, FiniteSets, TLC

VARIABLES
    \* _clean_cell on its own: argument, result, position
    cellIn, cellOut, cellPc,
    \* the loop body of _write_excel on its own: argument, result, position
    tableIn, tableOut, tablePc,
    \* one /convert request
    pc,          \* position in convert / convert_pdf_to_excel_with_meta
    doc,         \* the uploaded PDF
    tmpfs,       \* temporary directories that exist on disk
    textFound,   \* result of _pdf_has_selectable_text ("unknown" before the call)
    source,      \* the path the extractors read: "orig" or "ocr"
    used_ocr,
    ocrCalls,    \* history: calls of _ocr_to_searchable_pdf
    ocrOutcome,  \* history: "none", "ok", or why the OCR call raised
    cfgIdx,      \* index of the camelot configuration tried next
    tried,       \* the list tried of _try_camelot
    dfs,
    extractor,   \* meta["extractor"]
    calls,       \* history: the extractor invocations, in order
    exc,         \* the exception leaving convert_pdf_to_excel_with_meta
    xlsx,        \* the sheets of the written workbook
    meta,
    response

cellVars == <<cellIn, cellOut, cellPc>>

tableVars == <<tableIn, tableOut, tablePc>>

reqVars ==
    <<pc, doc, tmpfs, textFound, source, used_ocr, ocrCalls, ocrOutcome, cfgIdx,
      tried, dfs, extractor, calls, exc, xlsx, meta, response>>

vars == <<cellVars, tableVars, reqVars>>

\* ------------------------------------------------------------------------
\* Bounds of the text model
\* ------------------------------------------------------------------------
MaxLen == 4

Alphabet == {"7", ",", ".", "-", " ", "\t", "\n", "\r", "p", "P"}

\* Characters Python's str.strip() and the regex class \s treat as whitespace
\* (within the alphabet above).
WS == {" ", "\t", "\n", "\r"}

Digit == {"7"}

\* ------------------------------------------------------------------------
\* Cells
\* ------------------------------------------------------------------------
None == [kind |-> "none", chars |-> <<>>]

NA == [kind |-> "na", chars |-> <<>>]

Str(s) == [kind |-> "str", chars |-> s]

Num(s) == [kind |-> "num", chars |-> s]

\* ------------------------------------------------------------------------
\* String helpers used by _clean_cell
\* ------------------------------------------------------------------------
\* str.replace(a, b) for one-character a and b
Replace(s, a, b) == [i \in 1..Len(s) |-> IF s[i] = a THEN b ELSE s[i]]

RECURSIVE LStrip(_)
LStrip(s) == IF s # <<>> /\ Head(s) \in WS THEN LStrip(Tail(s)) ELSE s

RECURSIVE RStrip(_)
RStrip(s) ==
    IF s # <<>> /\ s[Len(s)] \in WS THEN RStrip(SubSeq(s, 1, Len(s) - 1)) ELSE s

\* str.strip()
Strip(s) == RStrip(LStrip(s))

\* Length of the whitespace run that starts at the head of s
RECURSIVE WsRun(_)
WsRun(s) == IF s # <<>> /\ Head(s) \in WS THEN 1 + WsRun(Tail(s)) ELSE 0

\* re.sub(r"\s{2,}", " ", s): every maximal run of two or more whitespace
\* characters becomes one space; a run of one is left as it is.
RECURSIVE CollapseWS(_)
CollapseWS(s) ==
    IF s = <<>> THEN <<>>
    ELSE LET n == WsRun(s)
         IN  IF n >= 2 THEN <<" ">> \o CollapseWS(SubSeq(s, n + 1, Len(s)))
             ELSE <<Head(s)>> \o CollapseWS(Tail(s))

AllDigits(s) == s # <<>> /\ \A i \in 1..Len(s) : s[i] \in Digit

\* \d+(?:[\.,]\d+)?
IsUnsigned(s) ==
    \/ AllDigits(s)
    \/ \E k \in 2..(Len(s) - 1) :
          /\ s[k] \in {".", ","}
          /\ AllDigits(SubSeq(s, 1, k - 1))
          /\ AllDigits(SubSeq(s, k + 1, Len(s)))

\* re.fullmatch(r"-?\d+(?:[\.,]\d+)?", s)
IsNumber(s) ==
    IF s # <<>> /\ Head(s) = "-" THEN IsUnsigned(Tail(s)) ELSE IsUnsigned(s)

\* The separator class between the number and the suffix in the regex of
\* _clean_cell: [ ]
PenceSep == {" "}

\* The lengths n such that s is a number of length n, then separators from
\* sep, then one p or P (the re.IGNORECASE flag)
SuffixSplits(s, sep) ==
    {n \in 1..(Len(s) - 1) :
        /\ IsNumber(SubSeq(s, 1, n))
        /\ s[Len(s)] \in {"p", "P"}
        /\ \A j \in (n + 1)..(Len(s) - 1) : s[j] \in sep}

\* re.fullmatch(r"(-?\d+(?:[\.,]\d+)?)[ ]*p", s, flags=re.IGNORECASE)
PenceMatch(s) == SuffixSplits(s, PenceSep) # {}

\* m.group(1) of that match
PenceGroup(s) == SubSeq(s, 1, CHOOSE n \in SuffixSplits(s, PenceSep) : TRUE)

\* _clean_cell
CleanCell(x) ==
    IF x.kind # "str" THEN x
    ELSE LET s0 == Strip(Replace(Replace(x.chars, "\n", " "), "\r", " "))
             s  == CollapseWS(s0)
         IN  IF PenceMatch(s) THEN Str(Replace(PenceGroup(s), ",", "."))
             ELSE IF IsNumber(s) THEN Str(Replace(s, ",", "."))
             ELSE Str(s)

\* ------------------------------------------------------------------------
\* Tables (DataFrames): cleaning, pruning, header promotion
\* ------------------------------------------------------------------------
\* A column label: a position of the default RangeIndex, or a header text
PosLabel(i) == [pos |-> i, name |-> <<>>]

NameLabel(s) == [pos |-> -1, name |-> s]

\* pd.DataFrame(grid) for a rectangular grid of ncols columns
Frame(ncols, grid) == [cols |-> [i \in 1..ncols |-> PosLabel(i - 1)], rows |-> grid]

\* DataFrame.empty: some axis has length zero
FrameEmpty(df) == Len(df.rows) = 0 \/ Len(df.cols) = 0

\* What pandas counts as missing in an object column
Missing(c) == c.kind \in {"none", "na"}

\* str(x) for a cell, as Series.astype(str) applies it
PyStr(c) ==
    CASE c.kind = "none" -> <<"N", "o", "n", "e">>
      [] c.kind = "na"   -> <<"<", "N", "A", ">">>
      [] OTHER           -> c.chars

\* s[:n]
Take(s, n) == SubSeq(s, 1, IF Len(s) < n THEN Len(s) ELSE n)

\* The subsequence of s at the indices that satisfy keep
RECURSIVE SelectIdx(_, _, _)
SelectIdx(s, keep, i) ==
    IF i > Len(s) THEN <<>>
    ELSE (IF keep[i] THEN <<s[i]>> ELSE <<>>) \o SelectIdx(s, keep, i + 1)

\* df.applymap(_clean_cell)
ApplyClean(df) ==
    [df EXCEPT !.rows =
        [r \in 1..Len(df.rows) |->
            [c \in 1..Len(df.rows[r]) |-> CleanCell(df.rows[r][c])]]]

\* cleaned.replace(r"^\s*$", pd.NA, regex=True): a string cell of whitespace
\* only (or empty) becomes pd.NA; other cells are left alone
BlankToNA(c) ==
    IF c.kind = "str" /\ \A i \in 1..Len(c.chars) : c.chars[i] \in WS THEN NA ELSE c

ReplaceBlank(df) ==
    [df EXCEPT !.rows =
        [r \in 1..Len(df.rows) |->
            [c \in 1..Len(df.rows[r]) |-> BlankToNA(df.rows[r][c])]]]

\* cleaned.dropna(how="all", axis=0)
DropEmptyRows(df) ==
    LET keep == [r \in 1..Len(df.rows) |->
                    \E c \in 1..Len(df.cols) : ~Missing(df.rows[r][c])]
    IN  [df EXCEPT !.rows = SelectIdx(df.rows, keep, 1)]

\* cleaned.dropna(how="all", axis=1)
DropEmptyCols(df) ==
    LET keep == [c \in 1..Len(df.cols) |->
                    \E r \in 1..Len(df.rows) : ~Missing(df.rows[r][c])]
    IN  [cols |-> SelectIdx(df.cols, keep, 1),
         rows |-> [r \in 1..Len(df.rows) |-> SelectIdx(df.rows[r], keep, 1)]]

\* The table as _write_excel hands it to _maybe_headerize
Pruned(df) == DropEmptyCols(DropEmptyRows(ReplaceBlank(ApplyClean(df))))

\* The header text cut-off of _maybe_headerize
HeaderMax == 60

\* df.iloc[0].astype(str).apply(lambda v: v.strip())
HeadOf(df) == [c \in 1..Len(df.cols) |-> Strip(PyStr(df.rows[1][c]))]

\* head.nunique(dropna=True) == len(head); head holds strings only, so
\* nothing is dropped
HeadUnique(head) == Cardinality({head[c] : c \in 1..Len(head)}) = Len(head)

\* _maybe_headerize
MaybeHeaderize(df) ==
    IF FrameEmpty(df) THEN df
    ELSE LET head == HeadOf(df)
         IN  IF HeadUnique(head)
             THEN [cols |-> [c \in 1..Len(head) |->
                                NameLabel(Take(Strip(head[c]), HeaderMax))],
                   rows |-> Tail(df.rows)]
             ELSE df

\* The frame written to a sheet for one extracted table (_write_excel, loop body)
SheetFrame(df) == MaybeHeaderize(Pruned(df))

\* pd.DataFrame() without rows or columns
NoFrame == [cols |-> <<>>, rows |-> <<>>]

CellIdle == cellIn = None /\ cellOut = None /\ cellPc = "idle"

TableIdle == tableIn = NoFrame /\ tableOut = NoFrame /\ tablePc = "idle"

\* ------------------------------------------------------------------------
\* Workbook writing
\* ------------------------------------------------------------------------
DigitChar == <<"0", "1", "2", "3", "4", "5", "6", "7", "8", "9">>

\* str(i) for i >= 0
RECURSIVE Decimal(_)
Decimal(i) ==
    IF i < 10 THEN <<DigitChar[i + 1]>>
    ELSE Decimal(i \div 10) \o <<DigitChar[(i % 10) + 1]>>

\* f"Table_{i}"
SheetName(i) == <<"T", "a", "b", "l", "e", "_">> \o Decimal(i)

\* Faulty variant of WriteExcel: a frame that cleaning leaves empty gets no sheet
WriteExcelSkipsEmpty(d) ==
    LET kept == SelectSeq(d, LAMBDA df : ~FrameEmpty(SheetFrame(df)))
    IN  [i \in 1..Len(kept) |-> [name |-> SheetName(i), frame |-> SheetFrame(kept[i])]]

\* _write_excel: enumerate(dfs, start=1), one sheet per frame
WriteExcel(d) ==
    [i \in 1..Len(d) |-> [name |-> SheetName(i), frame |-> SheetFrame(d[i])]]

\* ------------------------------------------------------------------------
\* The uploaded document and the text check
\* ------------------------------------------------------------------------
\* A page whose extract_text() raises
PageRaises == [kind |-> "raise", chars |-> <<>>]

\* page.extract_text() or ""
TextOrEmpty(page) == IF page.kind = "str" THEN page.chars ELSE <<>>

\* The pages the text check looks at: pdf.pages[:3]
TextCheckPages == 3

\* The for loop of _pdf_has_selectable_text; an exception ends it with False
RECURSIVE ScanPages(_)
ScanPages(pages) ==
    IF pages = <<>> THEN FALSE
    ELSE IF Head(pages).kind = "raise" THEN FALSE
    ELSE IF Strip(TextOrEmpty(Head(pages))) # <<>> THEN TRUE
    ELSE ScanPages(Tail(pages))

\* Faulty variant of PdfHasSelectableText: every page is looked at
PdfHasSelectableTextAnywhere(d) ==
    IF ~d.opens THEN FALSE ELSE ScanPages(d.pages)

\* _pdf_has_selectable_text
PdfHasSelectableText(d) ==
    IF ~d.opens THEN FALSE ELSE ScanPages(Take(d.pages, TextCheckPages))

\* The documents a request may upload
DocSamples ==
    {[opens |-> TRUE, pages |-> <<Str(<<"A">>)>>],
     [opens |-> TRUE, pages |-> <<Str(<<" ">>), Str(<<"A">>)>>],
     [opens |-> TRUE, pages |-> <<Str(<<" ">>), None, Str(<<>>), Str(<<"A">>)>>],
     [opens |-> TRUE, pages |-> <<PageRaises, Str(<<"A">>)>>],
     [opens |-> FALSE, pages |-> <<>>],
     [opens |-> TRUE, pages |-> <<>>],
     [opens |-> TRUE, pages |-> <<None, Str(<<"\n">>), Str(<<" ", "A">>)>>],
     [opens |-> TRUE, pages |-> <<Str(<<"A">>), PageRaises>>],
     [opens |-> TRUE, pages |-> <<Str(<<>>), PageRaises, Str(<<"A">>)>>]}

NoDoc == [opens |-> FALSE, pages |-> <<>>]

\* ------------------------------------------------------------------------
\* Extractors
\* ------------------------------------------------------------------------
\* _camelot_configs (a tolerance a configuration does not set is 0)
CamelotConfigs ==
    <<[flavor |-> "lattice", line_scale |-> 40, row_tol |-> 0, column_tol |-> 0],
      [flavor |-> "lattice", line_scale |-> 20, row_tol |-> 0, column_tol |-> 0],
      [flavor |-> "stream", line_scale |-> 0, row_tol |-> 10, column_tol |-> 10],
      [flavor |-> "stream", line_scale |-> 0, row_tol |-> 5, column_tol |-> 15]>>

\* The extractor invocations in the order of the code: the four camelot
\* configurations, pdfplumber, tabula lattice, tabula stream
Pdfplumber == Len(CamelotConfigs) + 1

TabulaLattice == Len(CamelotConfigs) + 2

TabulaStream == Len(CamelotConfigs) + 3

\* The tables an extractor may hand back
MaxTables == 2

TableSamples ==
    {NoFrame,
     Frame(1, << <<Str(<<" ">>)>> >>),
     Frame(2, << <<Str(<<"A">>), Str(<<"B">>)>>,
                 <<Str(<<"7", ",", "7", "p">>), None>> >>)}

\* What one extractor invocation does: raise, or return a list of tables
StrategyResults ==
    {[raised |-> TRUE, tables |-> <<>>]}
        \cup {[raised |-> FALSE, tables |-> t] :
                 t \in UNION {[1..n -> TableSamples] : n \in 0..MaxTables}}

\* Exception classes as the handlers of /convert tell them apart
ExcTypes == {"ValueError", "Exception"}

NoExc == [type |-> "none", origin |-> "none"]

NoExtractor == [engine |-> "none", cfg |-> 0, variant |-> "none"]

NoMeta ==
    [present |-> FALSE, extractor |-> NoExtractor, tables_found |-> 0,
     ocr_used |-> FALSE, pages |-> -1]

NoResponse ==
    [status |-> 0, body |-> "none", detail |-> "none", tables_found |-> 0,
     pages |-> -1, ocr_used |-> FALSE]

Call(k, r) == [strategy |-> k, src |-> source, raised |-> r.raised, tables |-> r.tables]

\* Faulty variant of CamelotHit: the loop never returns early
CamelotNeverHits(t) == FALSE

\* len(tables) > 0 in _try_camelot
CamelotHit(t) == Len(t) > 0

\* The frames _try_tabula keeps: isinstance(df, pd.DataFrame) and not df.empty
TabulaKeeps(t) == SelectSeq(t, LAMBDA df : ~FrameEmpty(df))

\* Faulty variant of NoTablesFound: the final check is missing
NoTablesNeverFound(d) == FALSE

\* if not dfs: raise ValueError(...)
NoTablesFound(d) == Len(d) = 0

\* ------------------------------------------------------------------------
\* One /convert request
\* ------------------------------------------------------------------------
MAX_BYTES == 12 * 1024 * 1024

ReqIdle ==
    /\ pc = "request"
    /\ doc = NoDoc
    /\ tmpfs = {}
    /\ textFound = "unknown"
    /\ source = "orig"
    /\ used_ocr = FALSE
    /\ ocrCalls = 0
    /\ ocrOutcome = "none"
    /\ cfgIdx = 1
    /\ tried = <<>>
    /\ dfs = <<>>
    /\ extractor = NoExtractor
    /\ calls = <<>>
    /\ exc = NoExc
    /\ xlsx = <<>>
    /\ meta = NoMeta
    /\ response = NoResponse

Init == ReqIdle /\ CellIdle /\ TableIdle

\* convert: the three checks that raise HTTPException before any file is made
RejectUpload ==
    /\ pc = "request"
    /\ \E pdfName \in BOOLEAN, size \in {MAX_BYTES, MAX_BYTES + 1}, pdfSig \in BOOLEAN :
          /\ ~pdfName \/ size > MAX_BYTES \/ ~pdfSig
          /\ response' =
                [NoResponse EXCEPT
                    !.status = IF ~pdfName THEN 400
                               ELSE IF size > MAX_BYTES THEN 413 ELSE 400,
                    !.body = "http_error"]
    /\ pc' = "done"
    /\ UNCHANGED <<doc, tmpfs, textFound, source, used_ocr, ocrCalls, ocrOutcome,
                   cfgIdx, tried, dfs, extractor, calls, exc, xlsx, meta>>
    /\ UNCHANGED <<cellVars, tableVars>>

\* convert, for an upload that passes the three checks: TemporaryDirectory()
\* is entered and the upload written into it; convert_pdf_to_excel_with_meta
\* starts with source = pdf_path
AcceptUpload ==
    /\ pc = "request"
    /\ \E d \in DocSamples : doc' = d
    /\ tmpfs' = tmpfs \cup {"upload_dir"}
    /\ source' = "orig"
    /\ used_ocr' = FALSE
    /\ pc' = "text_check"
    /\ UNCHANGED <<textFound, ocrCalls, ocrOutcome, cfgIdx, tried, dfs, extractor,
                   calls, exc, xlsx, meta, response>>
    /\ UNCHANGED <<cellVars, tableVars>>

\* if not _pdf_has_selectable_text(pdf_path)
TextCheck ==
    /\ pc = "text_check"
    /\ textFound' = IF PdfHasSelectableText(doc) THEN "yes" ELSE "no"
    /\ pc' = IF PdfHasSelectableText(doc) THEN "camelot" ELSE "ocr"
    /\ UNCHANGED <<doc, tmpfs, source, used_ocr, ocrCalls, ocrOutcome, cfgIdx, tried,
                   dfs, extractor, calls, exc, xlsx, meta, response>>
    /\ UNCHANGED <<cellVars, tableVars>>

\* Faulty variant of OcrSucceeds: used_ocr is not set
OcrSucceedsUnflagged ==
    /\ pc = "ocr"
    /\ tmpfs' = tmpfs \cup {"ocr_dir"}
    /\ ocrCalls' = ocrCalls + 1
    /\ ocrOutcome' = "ok"
    /\ source' = "ocr"
    /\ pc' = "camelot"
    /\ UNCHANGED <<doc, textFound, used_ocr, cfgIdx, tried, dfs, extractor, calls,
                   exc, xlsx, meta, response>>
    /\ UNCHANGED <<cellVars, tableVars>>

\* _ocr_to_searchable_pdf returns: mkdtemp() made a directory, ocrmypdf wrote
\* ocr_out.pdf into it, the caller sets source and used_ocr
OcrSucceeds ==
    /\ pc = "ocr"
    /\ tmpfs' = tmpfs \cup {"ocr_dir"}
    /\ ocrCalls' = ocrCalls + 1
    /\ ocrOutcome' = "ok"
    /\ source' = "ocr"
    /\ used_ocr' = TRUE
    /\ pc' = "camelot"
    /\ UNCHANGED <<doc, textFound, cfgIdx, tried, dfs, extractor, calls, exc, xlsx,
                   meta, response>>
    /\ UNCHANGED <<cellVars, tableVars>>

\* Faulty variant of OcrFails: the except clause re-raises
OcrFailsAborts ==
    /\ pc = "ocr"
    /\ tmpfs' = tmpfs \cup {"ocr_dir"}
    /\ ocrCalls' = ocrCalls + 1
    /\ \E why \in {"exit", "timeout", "other"} : ocrOutcome' = why
    /\ exc' = [type |-> "Exception", origin |-> "ocr"]
    /\ pc' = "except"
    /\ UNCHANGED <<doc, textFound, source, used_ocr, cfgIdx, tried, dfs, extractor,
                   calls, xlsx, meta, response>>
    /\ UNCHANGED <<cellVars, tableVars>>

\* subprocess.run raises (nonzero exit with check=True, timeout, or another
\* error) after mkdtemp(); the except clause of the caller keeps the original
OcrFails ==
    /\ pc = "ocr"
    /\ tmpfs' = tmpfs \cup {"ocr_dir"}
    /\ ocrCalls' = ocrCalls + 1
    /\ \E why \in {"exit", "timeout", "other"} : ocrOutcome' = why
    /\ source' = "orig"
    /\ pc' = "camelot"
    /\ UNCHANGED <<doc, textFound, used_ocr, cfgIdx, tried, dfs, extractor, calls,
                   exc, xlsx, meta, response>>
    /\ UNCHANGED <<cellVars, tableVars>>

\* One turn of the loop of _try_camelot, and its return when the loop ends;
\* a nonempty dfs skips both fallbacks of the caller
CamelotTry ==
    /\ pc = "camelot"
    /\ \E r \in StrategyResults :
          /\ calls' = Append(calls, Call(cfgIdx, r))
          /\ tried' = IF r.raised THEN tried
                      ELSE Append(tried, <<cfgIdx, Len(r.tables)>>)
          /\ IF ~r.raised /\ CamelotHit(r.tables)
             THEN /\ dfs' = r.tables
                  /\ extractor' = [engine |-> "camelot", cfg |-> cfgIdx,
                                   variant |-> CamelotConfigs[cfgIdx].flavor]
                  /\ pc' = "check"
                  /\ UNCHANGED cfgIdx
             ELSE IF cfgIdx < Len(CamelotConfigs)
             THEN /\ cfgIdx' = cfgIdx + 1
                  /\ UNCHANGED <<dfs, extractor, pc>>
             ELSE /\ dfs' = <<>>
                  /\ extractor' = [engine |-> "camelot", cfg |-> 0, variant |-> "none"]
                  /\ pc' = "pdfplumber"
                  /\ UNCHANGED cfgIdx
    /\ UNCHANGED <<doc, tmpfs, textFound, source, used_ocr, ocrCalls, ocrOutcome,
                   exc, xlsx, meta, response>>
    /\ UNCHANGED <<cellVars, tableVars>>

\* _try_pdfplumber: no try/except, so what pdfplumber raises leaves
\* convert_pdf_to_excel_with_meta; a file that does not open always raises
PdfplumberTry ==
    /\ pc = "pdfplumber"
    /\ \E r \in StrategyResults, ty \in ExcTypes :
          /\ (source = "orig" /\ ~doc.opens) => r.raised
          /\ calls' = Append(calls, Call(Pdfplumber, r))
          /\ IF r.raised
             THEN /\ exc' = [type |-> ty, origin |-> "pdfplumber"]
                  /\ pc' = "except"
                  /\ UNCHANGED <<dfs, extractor>>
             ELSE /\ dfs' = r.tables
                  /\ extractor' = [engine |-> "pdfplumber", cfg |-> 0, variant |-> "none"]
                  /\ pc' = IF Len(r.tables) = 0 THEN "tabula" ELSE "check"
                  /\ UNCHANGED exc
    /\ UNCHANGED <<doc, tmpfs, textFound, source, used_ocr, ocrCalls, ocrOutcome,
                   cfgIdx, tried, xlsx, meta, response>>
    /\ UNCHANGED <<cellVars, tableVars>>

\* _try_tabula: import tabula
TabulaImport ==
    /\ pc = "tabula"
    /\ \E available \in BOOLEAN :
          IF available
          THEN pc' = "tabula_lattice" /\ UNCHANGED <<dfs, extractor>>
          ELSE /\ dfs' = <<>>
               /\ extractor' = [engine |-> "tabula", cfg |-> 0, variant |-> "not-available"]
               /\ pc' = "check"
    /\ UNCHANGED <<doc, tmpfs, textFound, source, used_ocr, ocrCalls, ocrOutcome,
                   cfgIdx, tried, calls, exc, xlsx, meta, response>>
    /\ UNCHANGED <<cellVars, tableVars>>

\* _try_tabula: the loop turn with lattice=True; an exception ends the loop
TabulaLatticeTry ==
    /\ pc = "tabula_lattice"
    /\ \E r \in StrategyResults :
          /\ calls' = Append(calls, Call(TabulaLattice, r))
          /\ IF r.raised
             THEN /\ dfs' = <<>>
                  /\ extractor' = [engine |-> "tabula", cfg |-> 0, variant |-> "none"]
                  /\ pc' = "check"
             ELSE IF Len(TabulaKeeps(r.tables)) > 0
             THEN /\ dfs' = TabulaKeeps(r.tables)
                  /\ extractor' = [engine |-> "tabula", cfg |-> 0, variant |-> "lattice"]
                  /\ pc' = "check"
             ELSE /\ pc' = "tabula_stream"
                  /\ UNCHANGED <<dfs, extractor>>
    /\ UNCHANGED <<doc, tmpfs, textFound, source, used_ocr, ocrCalls, ocrOutcome,
                   cfgIdx, tried, exc, xlsx, meta, response>>
    /\ UNCHANGED <<cellVars, tableVars>>

\* _try_tabula: the loop turn with lattice=False, and the return after it
TabulaStreamTry ==
    /\ pc = "tabula_stream"
    /\ \E r \in StrategyResults :
          /\ calls' = Append(calls, Call(TabulaStream, r))
          /\ IF ~r.raised /\ Len(TabulaKeeps(r.tables)) > 0
             THEN /\ dfs' = TabulaKeeps(r.tables)
                  /\ extractor' = [engine |-> "tabula", cfg |-> 0, variant |-> "stream"]
             ELSE /\ dfs' = <<>>
                  /\ extractor' = [engine |-> "tabula", cfg |-> 0, variant |-> "none"]
          /\ pc' = "check"
    /\ UNCHANGED <<doc, tmpfs, textFound, source, used_ocr, ocrCalls, ocrOutcome,
                   cfgIdx, tried, exc, xlsx, meta, response>>
    /\ UNCHANGED <<cellVars, tableVars>>

\* if not dfs: raise ValueError("No tables found after OCR and all extractors.")
RaiseNoTables ==
    /\ pc = "check"
    /\ NoTablesFound(dfs)
    /\ exc' = [type |-> "ValueError", origin |-> "no_tables"]
    /\ pc' = "except"
    /\ UNCHANGED <<doc, tmpfs, textFound, source, used_ocr, ocrCalls, ocrOutcome,
                   cfgIdx, tried, dfs, extractor, calls, xlsx, meta, response>>
    /\ UNCHANGED <<cellVars, tableVars>>

\* _write_excel raises (pandas or openpyxl refuse the data)
WriteExcelRaises ==
    /\ pc = "check"
    /\ ~NoTablesFound(dfs)
    /\ \E ty \in ExcTypes : exc' = [type |-> ty, origin |-> "write_excel"]
    /\ pc' = "except"
    /\ UNCHANGED <<doc, tmpfs, textFound, source, used_ocr, ocrCalls, ocrOutcome,
                   cfgIdx, tried, dfs, extractor, calls, xlsx, meta, response>>
    /\ UNCHANGED <<cellVars, tableVars>>

\* the workbook of _write_excel(dfs); meta.update(...); the page count of source, None
\* (here -1) when pdfplumber cannot open it; return xlsx, meta
ReturnWorkbook ==
    /\ pc = "check"
    /\ ~NoTablesFound(dfs)
    /\ xlsx' = WriteExcel(dfs)
    /\ \E opened \in BOOLEAN :
          /\ (source = "orig" /\ ~doc.opens) => ~opened
          /\ meta' = [present |-> TRUE, extractor |-> extractor,
                      tables_found |-> Len(dfs), ocr_used |-> used_ocr,
                      pages |-> IF opened THEN Len(doc.pages) ELSE -1]
    /\ pc' = "return"
    /\ UNCHANGED <<doc, tmpfs, textFound, source, used_ocr, ocrCalls, ocrOutcome,
                   cfgIdx, tried, dfs, extractor, calls, exc, response>>
    /\ UNCHANGED <<cellVars, tableVars>>

\* convert: the with block ends normally (the TemporaryDirectory is removed)
\* and the workbook is streamed back
RespondWorkbook ==
    /\ pc = "return"
    /\ tmpfs' = tmpfs \ {"upload_dir"}
    /\ response' = [status |-> 200, body |-> "xlsx", detail |-> "none",
                    tables_found |-> meta.tables_found, pages |-> meta.pages,
                    ocr_used |-> meta.ocr_used]
    /\ pc' = "done"
    /\ UNCHANGED <<doc, textFound, source, used_ocr, ocrCalls, ocrOutcome, cfgIdx,
                   tried, dfs, extractor, calls, exc, xlsx, meta>>
    /\ UNCHANGED <<cellVars, tableVars>>

\* convert: except ValueError answers 422 "No tables found.", except Exception
\* answers 500 with str(e); the return leaves the with block
RespondError ==
    /\ pc = "except"
    /\ tmpfs' = tmpfs \ {"upload_dir"}
    /\ response' =
          IF exc.type = "ValueError"
          THEN [NoResponse EXCEPT !.status = 422, !.body = "no_tables_found"]
          ELSE [NoResponse EXCEPT !.status = 500, !.body = "conversion_failed",
                                  !.detail = exc.origin]
    /\ pc' = "done"
    /\ UNCHANGED <<doc, textFound, source, used_ocr, ocrCalls, ocrOutcome, cfgIdx,
                   tried, dfs, extractor, calls, exc, xlsx, meta>>
    /\ UNCHANGED <<cellVars, tableVars>>

Next ==
    \/ RejectUpload
    \/ AcceptUpload
    \/ TextCheck
    \/ OcrSucceeds
    \/ OcrFails
    \/ CamelotTry
    \/ PdfplumberTry
    \/ TabulaImport
    \/ TabulaLatticeTry
    \/ TabulaStreamTry
    \/ RaiseNoTables
    \/ WriteExcelRaises
    \/ ReturnWorkbook
    \/ RespondWorkbook
    \/ RespondError

Spec == Init /\ [][Next]_vars

\* ------------------------------------------------------------------------
\* Properties of one request
\* ------------------------------------------------------------------------
\* The extraction chain is behind: convert_pdf_to_excel_with_meta is at or
\* past its final check
ChainOver == pc \in {"check", "except", "return", "done"} /\ Len(calls) > 0

\* convert_pdf_to_excel_with_meta has returned or raised
ConvertOver == pc \in {"except", "return", "done"} /\ Len(calls) > 0

YieldedNothing(c) == ~c.raised /\ Len(c.tables) = 0

NonEmptyFrames(t) == SelectSeq(t, LAMBDA df : Len(df.rows) > 0 /\ Len(df.cols) > 0)

\* What the caller gets from an invocation that returned: every table, but
\* for the two tabula attempts only the frames that are not empty
Kept(c) == IF c.strategy >= TabulaLattice THEN NonEmptyFrames(c.tables) ELSE c.tables

LastCall == calls[Len(calls)]

\* C1: when every extractor invocation of the chain yields zero tables, the
\* conversion fails with the no-tables error and returns neither workbook
\* nor metadata, with or without OCR.
C1_NoTablesFails ==
    (ConvertOver /\ \A i \in 1..Len(calls) : YieldedNothing(calls[i]))
        => /\ exc = [type |-> "ValueError", origin |-> "no_tables"]
           /\ xlsx = <<>>
           /\ ~meta.present
           /\ pc = "done" => response.status = 422 /\ response.body = "no_tables_found"

C1_Witness ==
    /\ pc = "done"
    /\ Len(calls) = TabulaStream
    /\ \A i \in 1..Len(calls) : YieldedNothing(calls[i])
    /\ ocrOutcome = "ok"
    /\ response.status = 422

\* C2 as stated: the extractors run in the canonical order, each at most
\* once, the chain stops at the first one that returns at least one table, and
\* the tables handed on are exactly that one's.
C2_FirstNonemptyWins ==
    \A i \in 1..Len(calls) :
        /\ calls[i].strategy = i
        /\ (~calls[i].raised /\ Len(calls[i].tables) > 0)
              => i = Len(calls) /\ dfs = calls[i].tables

\* C2 as amended: the same, where a tabula attempt counts as nonempty only if
\* it returns a frame that is not empty, and tabula's empty frames are dropped
\* from the tables handed on.
C2_FirstKeptWins ==
    \A i \in 1..Len(calls) :
        /\ calls[i].strategy = i
        /\ (~calls[i].raised /\ Len(Kept(calls[i])) > 0)
              => i = Len(calls) /\ dfs = Kept(calls[i])

C2_Witness ==
    /\ pc = "done"
    /\ response.status = 200
    /\ Len(calls) = TabulaStream
    /\ Len(calls[TabulaLattice].tables) > 0
    /\ Len(LastCall.tables) > Len(dfs)
    /\ Len(dfs) > 0

\* C3: an error raised by one extractor invocation counts as an empty result:
\* it does not leave the chain, every later extractor is still tried, and the
\* conversion fails only when all of them end up empty.
C3_FaultsAbsorbed ==
    /\ exc.origin # "pdfplumber"
    /\ (ChainOver /\ NoTablesFound(dfs) /\ extractor.variant # "not-available")
          => Len(calls) = TabulaStream

\* C4: a failed OCR call does not abort the conversion: the chain runs, on
\* the original document.
C4_OcrFailureDegrades ==
    ocrOutcome \in {"exit", "timeout", "other"}
        => /\ source = "orig"
           /\ exc.origin # "ocr"
           /\ \A i \in 1..Len(calls) : calls[i].src = "orig"
           /\ pc \in {"except", "return", "done"} => Len(calls) > 0

C4_Witness ==
    /\ ocrOutcome = "timeout"
    /\ pc = "done"
    /\ response.status = 200
    /\ LastCall.src = "orig"

\* C5 as stated: the metadata of a successful conversion has ocr_used true
\* exactly when the OCR step was invoked.
C5_OcrUsedIffInvoked ==
    meta.present => (meta.ocr_used <=> ocrCalls > 0)

\* C5 as amended: ocr_used is true exactly when the OCR step was invoked and
\* returned without raising.
C5_OcrUsedIffSucceeded ==
    /\ meta.present => (meta.ocr_used <=> (ocrCalls > 0 /\ ocrOutcome = "ok"))
    /\ response.status = 200 => (response.ocr_used <=> ocrOutcome = "ok")

C5_Witness ==
    /\ response.status = 200
    /\ ocrCalls = 1
    /\ ocrOutcome = "ok"
    /\ meta.ocr_used

\* C6: when the request has ended, on whatever path, no temporary directory
\* made for it is left.
C6_NoTempLeft == pc = "done" => tmpfs = {}

\* C7: the answer is 422 exactly when every extractor came back empty; any
\* other exception of the pipeline is answered 500 with its message.
C7_NoTablesDistinct ==
    (pc = "done" /\ Len(calls) > 0)
        => /\ response.status = 422
                <=> \A i \in 1..Len(calls) :
                        calls[i].raised \/ Len(Kept(calls[i])) = 0
           /\ exc.origin \in {"pdfplumber", "write_excel"}
                => response.status = 500 /\ response.detail = exc.origin

\* C10: a successful conversion returns N >= 1 sheets, N the tables_found of
\* the metadata, named Table_1..Table_N in the order of the winning
\* extractor's tables, one for each table even if cleaning empties it.
C10_SheetPerTable ==
    pc \in {"return", "done"} /\ meta.present
        => /\ meta.tables_found >= 1
           /\ Len(xlsx) = meta.tables_found
           /\ Len(xlsx) = Len(Kept(LastCall))
           /\ \A i \in 1..Len(xlsx) :
                 /\ xlsx[i].name = <<"T", "a", "b", "l", "e", "_", DigitChar[i + 1]>>
                 /\ xlsx[i].frame = SheetFrame(Kept(LastCall)[i])

C10_Witness ==
    /\ response.status = 200
    /\ Len(xlsx) = 2
    /\ FrameEmpty(xlsx[1].frame)
    /\ ~FrameEmpty(xlsx[2].frame)

\* A page holds text that is not only whitespace
PageHasText(p) == p.kind = "str" /\ \E i \in 1..Len(p.chars) : p.chars[i] \notin WS

\* One of the first 3 pages of the document holds text
TextOnFirstPages(d) ==
    \E i \in 1..Len(d.pages) : i <= 3 /\ PageHasText(d.pages[i])

\* The text extraction of the detector throws: the document does not open, or
\* one of its first 3 pages raises with no text on a page before it
DetectorThrows(d) ==
    \/ ~d.opens
    \/ \E i \in 1..Len(d.pages) :
          /\ i <= 3
          /\ d.pages[i].kind = "raise"
          /\ \A j \in 1..(i - 1) : ~PageHasText(d.pages[j])

\* OCR runs at most once, not after an extractor has run, has run before the
\* first extractor whenever the detector said no, and never when it said yes;
\* the detector says no exactly when no first page holds text or it throws
OcrFollowsDetector ==
    /\ ocrCalls <= 1
    /\ pc = "ocr" => calls = <<>> /\ ocrCalls = 0
    /\ ocrCalls > 0 => textFound = "no"
    /\ (textFound = "no" /\ pc # "ocr") => ocrCalls = 1
    /\ textFound # "unknown"
          => (textFound = "no" <=> (~TextOnFirstPages(doc) \/ DetectorThrows(doc)))

\* C11 as stated: OCR is invoked at most once, before the first extractor,
\* exactly when the detector reports no usable text, which is exactly when none
\* of the first 3 pages yields text or the extraction throws; a document with
\* text on one of its first 3 pages never triggers OCR.
C11_TextOnFirstPagesNoOcr ==
    /\ OcrFollowsDetector
    /\ TextOnFirstPages(doc) => ocrCalls = 0 /\ pc # "ocr"

\* C11 as amended: the same, but a document with text on one of its first 3
\* pages never triggers OCR only if it opens and no earlier page raises; OCR
\* is called only at the OCR step, with no extractor invoked yet.
C11_OcrIffDetectorSaysNo ==
    /\ [](/\ OcrFollowsDetector
          /\ (TextOnFirstPages(doc) /\ ~DetectorThrows(doc))
                => ocrCalls = 0 /\ pc # "ocr")
    /\ [][ocrCalls' # ocrCalls
            => pc = "ocr" /\ calls = <<>> /\ calls' = <<>> /\ ocrCalls' = 1]_vars

C11_Witness ==
    /\ pc = "done"
    /\ Len(doc.pages) = 4
    /\ PageHasText(doc.pages[4])
    /\ textFound = "no"
    /\ ocrCalls = 1
    /\ Len(calls) > 0
    /\ LastCall.src = "ocr"

\* ------------------------------------------------------------------------
\* Specification of the per-table cleaning over every bounded grid
\* ------------------------------------------------------------------------
MaxRows == 2

MaxCols == 3

TableCells ==
    {None, Str(<<>>), Str(<<"A">>), Str(<<" ", "A">>), Str(<<"B">>)}

InitTable ==
    /\ \E nr \in 1..MaxRows, nc \in 1..MaxCols :
          \E g \in [1..nr -> [1..nc -> TableCells]] : tableIn = Frame(nc, g)
    /\ tableOut = NoFrame
    /\ tablePc = "call"
    /\ CellIdle
    /\ ReqIdle

CleanTableCall ==
    /\ tablePc = "call"
    /\ tableOut' = SheetFrame(tableIn)
    /\ tablePc' = "returned"
    /\ UNCHANGED <<tableIn, cellVars, reqVars>>

NextTable == CleanTableCall

SpecTable == InitTable /\ [][NextTable]_vars

\* Two cells hold the same value: both are missing, or both are present, of
\* one type and equal after trimming
SameValue(a, b) ==
    \/ Missing(a) /\ Missing(b)
    \/ ~Missing(a) /\ ~Missing(b) /\ a.kind = b.kind
         /\ Strip(a.chars) = Strip(b.chars)

RowDistinct(row) ==
    \A i \in 1..Len(row) : \A j \in 1..Len(row) :
        i # j => ~SameValue(row[i], row[j])

Promoted(before, after) ==
    /\ after.rows = Tail(before.rows)
    /\ \A c \in 1..Len(after.cols) : after.cols[c].pos = -1

\* C9: a cleaned, pruned, nonempty table has its first remaining row promoted
\* to headers (and removed from the data) exactly when the trimmed values of
\* that row are pairwise distinct; two equal cells, two missing cells
\* included, keep every row and the positional labels.
C9_PromotedIffDistinct ==
    (tablePc = "returned" /\ ~FrameEmpty(Pruned(tableIn)))
        => LET p == Pruned(tableIn)
           IN  IF RowDistinct(p.rows[1])
               THEN Promoted(p, tableOut)
               ELSE tableOut = p

\* ------------------------------------------------------------------------
\* Specification of _clean_cell over every bounded input
\* ------------------------------------------------------------------------
InitCell ==
    /\ \/ \E k \in 0..MaxLen : \E s \in [1..k -> Alphabet] : cellIn = Str(s)
       \/ cellIn \in {None, Num(<<"7">>)}
    /\ cellOut = None
    /\ cellPc = "call"
    /\ TableIdle
    /\ ReqIdle

CleanCellCall ==
    /\ cellPc = "call"
    /\ cellOut' = CleanCell(cellIn)
    /\ cellPc' = "returned"
    /\ UNCHANGED <<cellIn, tableVars, reqVars>>

NextCell == CleanCellCall

SpecCell == InitCell /\ [][NextCell]_vars

\* The pattern ^-?\d+([.,]\d+)?\s*p$, case-insensitive; $ also matches before
\* one final newline.
ClaimPattern(s) ==
    \/ SuffixSplits(s, WS) # {}
    \/ /\ s # <<>>
       /\ s[Len(s)] = "\n"
       /\ SuffixSplits(SubSeq(s, 1, Len(s) - 1), WS) # {}

\* The numeric part of a string of that pattern, comma turned into period
ClaimNumber(s) ==
    LET t == IF SuffixSplits(s, WS) # {} THEN s ELSE SubSeq(s, 1, Len(s) - 1)
    IN  Replace(SubSeq(t, 1, CHOOSE n \in SuffixSplits(t, WS) : TRUE), ",", ".")

\* C8: a cell that matches ^-?\d+([.,]\d+)?\s*p$ (case-insensitive, any
\* whitespace between number and suffix) is cleaned to its numeric part with
\* a decimal comma turned into a period.
C8_SuffixStripped ==
    (cellPc = "returned" /\ cellIn.kind = "str" /\ ClaimPattern(cellIn.chars))
        => cellOut = Str(ClaimNumber(cellIn.chars))

====
